---------------------------- MODULE Spec2Model ----------------------------
(***************************************************************************)
(* Model of learning/train_with_job_array.py: main() as a linear pipeline  *)
(* over one experiment descriptor.                                         *)
(*                                                                         *)
(* Python values are tagged records, one field name per Python type, so    *)
(* that values of different types are unequal:                             *)
(*   [null |-> TRUE]        None                                           *)
(*   [int |-> n]            a number                                       *)
(*   [bool |-> b]           True or False                                  *)
(*   [str |-> s]            a string                                       *)
(*   [path |-> <<..>>]      a path string, as its components               *)
(*   [list |-> <<..>>]      a Python list (a YAML sequence)                *)
(*   [grid_search |-> s]    tune.grid_search(s), i.e. {"grid_search": s}   *)
(*   [dict |-> f]           a mapping, f a function from its keys          *)
(*   [fn |-> name]          a function object                              *)
(* A descriptor is a function from its present keys to such values.        *)
(***************************************************************************)
EXTENDS Integers, Sequences, FiniteSets, TLC

VARIABLES
    args,               \* parse_args(): the command line
    experiments,        \* misc.load_yaml(args.config_file), in file order
    exp,                \* the descriptor being edited (None before line 64)
    exp_name,           \* the name returned by the task-ID callback
    verbose,            \* the local `verbose` (0: not assigned yet)
    update_exp_by_task_id, \* the resolved callback (None before line 83)
    pc,                 \* the next step of main()
    exit_code,          \* -1 while running, 0 on return, 1 on uncaught exception
    failed_at,          \* the step that raised ("" if none)
    steps,              \* history: the steps entered so far, in order
    cb_in,              \* history: descriptor handed to the callback
    cb_out,             \* history: descriptor the callback returned
    registered,         \* history: arguments of the register_custom_* calls
    ray_init_calls,     \* number of ray.init invocations
    ray_init_args,      \* keyword arguments of the ray.init invocation
    ray_shutdown_calls, \* number of ray.shutdown invocations
    trainer,            \* get_trainer_class(exp['run']) (None before line 136)
    run_calls,          \* number of tune.run invocations
    run_args,           \* keyword arguments of the tune.run invocation
    run_returned        \* tune.run has returned normally

vars == <<args, experiments, exp, exp_name, verbose, update_exp_by_task_id,
          pc, exit_code, failed_at, steps, cb_in, cb_out, registered,
          ray_init_calls, ray_init_args, ray_shutdown_calls, trainer, run_calls,
          run_args, run_returned>>

-----------------------------------------------------------------------------
(* Bounds of the enumerated inputs.                                        *)

MaxExperiments == 2
MaxTaskId == 1

-----------------------------------------------------------------------------
(* Python values and dictionaries.                                         *)

None == [null |-> TRUE]
Num(n) == [int |-> n]
Bool(b) == [bool |-> b]
Str(s) == [str |-> s]
Path(p) == [path |-> p]
List(s) == [list |-> s]
Dict(f) == [dict |-> f]
Fn(s) == [fn |-> s]

IsList(v) == "list" \in DOMAIN v
IsDict(v) == "dict" \in DOMAIN v

Has(d, k) == k \in DOMAIN d
Put(d, k, v) == [x \in DOMAIN d \cup {k} |-> IF x = k THEN v ELSE d[x]]
Del(d, k) == [x \in DOMAIN d \ {k} |-> d[x]]
EmptyDict == [x \in {} |-> None]

\* exp['config'] as a function; defined when HasConfig(e)
HasConfig(e) == Has(e, "config") /\ IsDict(e["config"])
Config(e) == e["config"].dict
HasConfigKey(e, k) == HasConfig(e) /\ Has(Config(e), k)
\* exp['config'][k] = v
SetConfig(e, k, v) == [e EXCEPT !["config"] = Dict(Put(Config(e), k, v))]
\* del exp['config'][k]
DelConfig(e, k) == [e EXCEPT !["config"] = Dict(Del(Config(e), k))]


-----------------------------------------------------------------------------
(* The inputs: command lines and YAML files.                               *)

\* --job-array-module: three callback modules, a module that does not
\* exist, and a module without the attribute update_exp_by_task_id
CallbackModules == {"select_lr", "sweep_lr", "rebuild"}
Modules == CallbackModules \cup {"missing_module", "no_callback"}

Args == [v : BOOLEAN, vv : BOOLEAN, local_mode : BOOLEAN,
         job_array_module : Modules, job_array_task_id : 0..MaxTaskId]

OptionalKeys == {"restore", "keep_checkpoints_num", "resources_per_trial"}

\* the values the optional keys hold in a file that gives them: an explicit
\* null, a falsy number and a mapping
OptionalValue(k) ==
    CASE k = "restore" -> None
      [] k = "keep_checkpoints_num" -> Num(0)
      [] OTHER -> Dict([cpu |-> Num(1)])

BareConfig ==
    [model |-> Dict([custom_model |-> Str("net")]),
     multiagent |-> Dict([policies |-> List(<<"p0", "p1">>),
                          policy_mapping_fn |-> Str("by_agent_id")]),
     lr |-> Num(5),
     clip_param |-> Num(3),
     lr_schedule |-> List(<<0, 5>>)]

\* a config that already sets what the flags and the later steps write
TunedConfig ==
    [x \in DOMAIN BareConfig \cup
           {"log_level", "num_workers", "env", "kl_coeff", "callbacks"} |->
        CASE x = "log_level" -> Str("WARN")
          [] x = "num_workers" -> Num(2)
          [] x = "env" -> Str("OldEnv")
          [] x = "kl_coeff" -> List(<<2, 4>>)
          [] x = "callbacks" -> Str("callbacks_cfg")
          [] OTHER -> BareConfig[x]]

Presets == {"bare", "tuned"}

Required(preset) ==
    [env |-> Str("Env-v0"),
     config |-> Dict(IF preset = "tuned" THEN TunedConfig ELSE BareConfig),
     run |-> Str("PPO"),
     stop |-> Dict([timesteps_total |-> Num(100)]),
     num_samples |-> Num(1),
     local_dir |-> Path(IF preset = "tuned" THEN <<"results">>
                                           ELSE <<"~", "ray_results">>),
     checkpoint_freq |-> Num(10),
     checkpoint_at_end |-> Bool(TRUE),
     ray_resources |-> Dict([num_cpus |-> Num(4), num_gpus |-> Num(0)])]

\* the fields a file may leave out ("": none)
Omissions == {"", "config", "env", "local_dir", "ray_resources", "run", "stop",
              "config.multiagent", "config.model"}

Omit(d, o) ==
    CASE o = "" -> d
      [] o = "config.multiagent" -> DelConfig(d, "multiagent")
      [] o = "config.model" -> DelConfig(d, "model")
      [] OTHER -> Del(d, o)

Descriptor(preset, opt, o) ==
    LET req == Required(preset)
        full == [k \in DOMAIN req \cup opt |->
                    IF k \in opt THEN OptionalValue(k) ELSE req[k]]
    IN  Omit(full, o)

Descriptors ==
    {Descriptor(p, opt, o) : p \in Presets, opt \in SUBSET OptionalKeys,
                             o \in Omissions}

ExpName(i) == "exp" \o ToString(i)
\* a file with n top-level names, as the list of its (name, descriptor) items
YamlFile(n, d) == [i \in 1..n |-> [name |-> ExpName(i), value |-> d]]

Init ==
    /\ args \in Args
    /\ \E n \in 0..MaxExperiments, d \in Descriptors :
          experiments = YamlFile(n, d)
    /\ exp = None
    /\ exp_name = None
    /\ verbose = 0
    /\ update_exp_by_task_id = None
    /\ pc = "select"
    /\ exit_code = -1
    /\ failed_at = ""
    /\ steps = << >>
    /\ cb_in = None
    /\ cb_out = None
    /\ registered = None
    /\ ray_init_calls = 0
    /\ ray_init_args = None
    /\ ray_shutdown_calls = 0
    /\ trainer = None
    /\ run_calls = 0
    /\ run_args = None
    /\ run_returned = FALSE

-----------------------------------------------------------------------------
(* Control flow: main() is straight-line code with no try/except, so a     *)
(* step either falls through to the next line or raises out of main().     *)

Pipeline == <<"select", "trial_name", "paths", "verbosity", "local_mode",
              "resolve", "callback", "register", "ray_init", "policy_manager",
              "multiagent", "grid_search", "reshape", "get_trainer", "run",
              "shutdown">>

IndexOf(step) == CHOOSE i \in 1..Len(Pipeline) : Pipeline[i] = step

\* tune.run in a retry loop
SuccessorRetryRun(step) ==
    IF step = "run" THEN "run"
    ELSE IF IndexOf(step) = Len(Pipeline) THEN "exited"
    ELSE Pipeline[IndexOf(step) + 1]

\* main() returning right after tune.run
SuccessorSkipShutdown(step) ==
    IF step = "run" \/ IndexOf(step) = Len(Pipeline) THEN "exited"
    ELSE Pipeline[IndexOf(step) + 1]

\* the statement after `step`; main() returns after the last one
Successor(step) ==
    IF IndexOf(step) = Len(Pipeline) THEN "exited"
    ELSE Pipeline[IndexOf(step) + 1]

\* `step` completes normally
Goto(step) ==
    /\ pc' = Successor(step)
    /\ steps' = Append(steps, step)
    /\ exit_code' = IF Successor(step) = "exited" THEN 0 ELSE exit_code
    /\ UNCHANGED failed_at

\* the exception caught and logged, and main() carrying on
RaiseAndContinue(step) ==
    /\ pc' = IF IndexOf(step) = Len(Pipeline) THEN "exited"
             ELSE Pipeline[IndexOf(step) + 1]
    /\ steps' = Append(steps, step)
    /\ exit_code' = 1
    /\ failed_at' = step

\* `step` raises: the exception is caught nowhere and the interpreter exits
Raise(step) ==
    /\ pc' = "exited"
    /\ steps' = Append(steps, step)
    /\ exit_code' = 1
    /\ failed_at' = step

inputs == <<args, experiments>>
callback_vars == <<exp_name, update_exp_by_task_id, cb_in, cb_out>>
ray_vars == <<ray_init_calls, ray_init_args, ray_shutdown_calls>>
run_vars == <<trainer, run_calls, run_args, run_returned>>

-----------------------------------------------------------------------------
(* Lines 60-64: load the file and take its only experiment.                *)

\* a check that only rejects the empty file
AtLeastOneExperiment(exps) == Len(exps) >= 1

\* assert len(exp_names) == 1
ExactlyOneExperiment(exps) == Len(exps) = 1

SelectExperiment ==
    /\ pc = "select"
    /\ IF ExactlyOneExperiment(experiments)
       THEN exp' = experiments[1].value /\ Goto("select")
       ELSE UNCHANGED exp /\ Raise("select")
    /\ UNCHANGED <<inputs, verbose, callback_vars, registered, ray_vars,
                   run_vars>>

(* Line 65.                                                                *)
SetTrialNameCreator ==
    /\ pc = "trial_name"
    /\ exp' = Put(exp, "trial_name_creator", Fn("trial_name_creator"))
    /\ Goto("trial_name")
    /\ UNCHANGED <<inputs, verbose, callback_vars, registered, ray_vars,
                   run_vars>>

-----------------------------------------------------------------------------
(* Lines 66-70: path-valued fields become absolute, user-expanded paths.   *)

Home == <<"/", "home", "user">>
Cwd == <<"/", "work">>

\* os.path.expanduser
ExpandUser(p) == IF p # << >> /\ Head(p) = "~" THEN Home \o Tail(p) ELSE p
\* os.path.abspath
AbsPath(p) == IF p # << >> /\ Head(p) = "/" THEN p ELSE Cwd \o p

path_keys == {"local_dir"}

\* the value written back for one path key
NormalizePath(v) == Path(AbsPath(ExpandUser(v.path)))

NormalizePaths ==
    /\ pc = "paths"
    /\ IF path_keys \subseteq DOMAIN exp
       THEN /\ exp' = [k \in DOMAIN exp |->
                         IF k \in path_keys THEN NormalizePath(exp[k])
                         ELSE exp[k]]
            /\ Goto("paths")
       ELSE UNCHANGED exp /\ Raise("paths")
    /\ UNCHANGED <<inputs, verbose, callback_vars, registered, ray_vars,
                   run_vars>>

-----------------------------------------------------------------------------
(* Lines 71-77: the verbosity flags.                                       *)

\* the local `verbose` after line 77
VerboseLevel(a) == IF a.vv THEN 3 ELSE IF a.v THEN 2 ELSE 1

\* the two flags handled as if/elif, -v first
SetLogLevelElif(e, a) ==
    IF a.v THEN SetConfig(e, "log_level", Str("INFO"))
    ELSE IF a.vv THEN SetConfig(e, "log_level", Str("DEBUG")) ELSE e

\* the descriptor after line 77 (when no line raised)
SetLogLevel(e, a) ==
    LET e1 == IF a.v THEN SetConfig(e, "log_level", Str("INFO")) ELSE e
    IN  IF a.vv THEN SetConfig(e1, "log_level", Str("DEBUG")) ELSE e1

ApplyVerbosity ==
    /\ pc = "verbosity"
    /\ IF (args.v \/ args.vv) /\ ~HasConfig(exp)
       THEN /\ verbose' = 1   \* line 71 ran, line 73 or 76 raised
            /\ UNCHANGED exp
            /\ Raise("verbosity")
       ELSE /\ verbose' = VerboseLevel(args)
            /\ exp' = SetLogLevel(exp, args)
            /\ Goto("verbosity")
    /\ UNCHANGED <<inputs, callback_vars, registered, ray_vars, run_vars>>

-----------------------------------------------------------------------------
(* Lines 78-79: the local-mode flag.                                       *)

\* setdefault in place of the assignment: an existing count survives
SetLocalModeDefault(e, a) ==
    IF a.local_mode /\ ~HasConfigKey(e, "num_workers")
    THEN SetConfig(e, "num_workers", Num(0)) ELSE e

SetLocalMode(e, a) ==
    IF a.local_mode THEN SetConfig(e, "num_workers", Num(0)) ELSE e

ApplyLocalMode ==
    /\ pc = "local_mode"
    /\ IF args.local_mode /\ ~HasConfig(exp)
       THEN UNCHANGED exp /\ Raise("local_mode")
       ELSE exp' = SetLocalMode(exp, args) /\ Goto("local_mode")
    /\ UNCHANGED <<inputs, verbose, callback_vars, registered, ray_vars,
                   run_vars>>

-----------------------------------------------------------------------------
(* Lines 82-84: the task-ID callback.                                      *)

ResolveCallback ==
    /\ pc = "resolve"
    /\ IF args.job_array_module \in CallbackModules
       THEN /\ update_exp_by_task_id' = Fn(args.job_array_module)
            /\ Goto("resolve")
       ELSE \* importlib.import_module or getattr raises
            /\ UNCHANGED update_exp_by_task_id
            /\ Raise("resolve")
    /\ UNCHANGED <<inputs, exp, exp_name, verbose, cb_in, cb_out, registered,
                   ray_vars, run_vars>>

\* The callback modules of the model.  Each picks the learning rate of the
\* task; "sweep_lr" gives a list of rates; "rebuild" returns a new
\* descriptor whose config is built afresh from the tunable fields (so
\* log_level and num_workers are not carried over) with a per-task local_dir.
LrOfTask(id) == id + 1

CallbackName(m, id) == Str(m \o "_" \o ToString(id))

RebuiltKeys == {"log_level", "num_workers"}

CallbackDescriptor(m, e, id) ==
    CASE m = "select_lr" -> SetConfig(e, "lr", Num(LrOfTask(id)))
      [] m = "sweep_lr" ->
            SetConfig(e, "lr", List(<<LrOfTask(id), LrOfTask(id) + 1>>))
      [] OTHER ->
            LET cfg == Config(e)
                fresh == [k \in DOMAIN cfg \ RebuiltKeys |->
                              IF k = "lr" THEN Num(LrOfTask(id)) ELSE cfg[k]]
            IN  [Put(e, "local_dir", Path(<<"/", "scratch", ToString(id)>>))
                    EXCEPT !["config"] = Dict(fresh)]

\* the object passed in, as it is once the callback has returned:
\* "select_lr" and "sweep_lr" edit it in place and return it
PassedAfterCall(m, e, id) ==
    IF m \in {"select_lr", "sweep_lr"} THEN CallbackDescriptor(m, e, id) ELSE e

\* every callback of the model reads exp['config']
CallbackRaises(m, e) == ~HasConfig(e)

\* the callback's descriptor dropped: exp stays the object passed in
BindCallbackIgnoreReturn(passed, returned, name) ==
    [exp |-> passed, exp_name |-> name]

\* line 84: what main() binds exp and exp_name to
BindCallbackResult(passed, returned, name) == [exp |-> returned, exp_name |-> name]

UpdateExpByTaskId ==
    /\ pc = "callback"
    /\ cb_in' = exp
    /\ IF CallbackRaises(update_exp_by_task_id.fn, exp)
       THEN UNCHANGED <<exp, exp_name, cb_out>> /\ Raise("callback")
       ELSE LET m == update_exp_by_task_id.fn
                id == args.job_array_task_id
                returned == CallbackDescriptor(m, exp, id)
                bound == BindCallbackResult(PassedAfterCall(m, exp, id),
                                            returned, CallbackName(m, id))
            IN  /\ cb_out' = returned
                /\ exp' = bound.exp
                /\ exp_name' = bound.exp_name
                /\ Goto("callback")
    /\ UNCHANGED <<inputs, verbose, update_exp_by_task_id, registered,
                   ray_vars, run_vars>>

-----------------------------------------------------------------------------
(* Lines 93-94: registration of the custom environment and model.          *)

RegisterCustom ==
    /\ pc = "register"
    /\ IF Has(exp, "env") /\ HasConfigKey(exp, "model")
       THEN \/ /\ registered' = [env |-> exp["env"],
                                 model |-> Config(exp)["model"]]
               /\ Goto("register")
            \/ \* misc.register_custom_env or register_custom_model raises
               /\ UNCHANGED registered
               /\ Raise("register")
       ELSE UNCHANGED registered /\ Raise("register")
    /\ UNCHANGED <<inputs, exp, verbose, callback_vars, ray_vars, run_vars>>

-----------------------------------------------------------------------------
(* Lines 97-103: ray.init.                                                 *)

HasRayResources(e) ==
    /\ Has(e, "ray_resources")
    /\ IsDict(e["ray_resources"])
    /\ {"num_cpus", "num_gpus"} \subseteq DOMAIN e["ray_resources"].dict

RayInitArgs(e, a) ==
    [local_mode |-> a.local_mode,
     num_cpus |-> e["ray_resources"].dict["num_cpus"],
     num_gpus |-> e["ray_resources"].dict["num_gpus"]]

RayInit ==
    /\ pc = "ray_init"
    /\ IF HasRayResources(exp)
       THEN /\ ray_init_calls' = ray_init_calls + 1
            /\ ray_init_args' = RayInitArgs(exp, args)
            /\ \/ Goto("ray_init")
               \/ Raise("ray_init")   \* ray.init raises
       ELSE \* KeyError while the arguments are evaluated: no call
            /\ UNCHANGED <<ray_init_calls, ray_init_args>>
            /\ Raise("ray_init")
    /\ UNCHANGED <<inputs, exp, verbose, callback_vars, registered,
                   ray_shutdown_calls, run_vars>>

-----------------------------------------------------------------------------
(* Lines 106-109: the policy manager and the callbacks.                    *)

\* misc.set_callbacks(exp, agent_ids): rewrites exp['config']['callbacks']
SetCallbacks(e) == SetConfig(e, "callbacks", Fn("callbacks"))

MakePolicyManager ==
    /\ pc = "policy_manager"
    /\ \/ /\ exp' = IF HasConfigKey(exp, "callbacks") THEN SetCallbacks(exp)
                    ELSE exp
          /\ Goto("policy_manager")
       \/ \* PolicyManager(env_creator, exp['config']) raises
          /\ UNCHANGED exp
          /\ Raise("policy_manager")
    /\ UNCHANGED <<inputs, verbose, callback_vars, registered, ray_vars,
                   run_vars>>

-----------------------------------------------------------------------------
(* Lines 112-117: the multi-agent section of the config.                   *)

HasMultiagent(e) ==
    /\ HasConfigKey(e, "multiagent")
    /\ IsDict(Config(e)["multiagent"])
    /\ {"policies", "policy_mapping_fn"} \subseteq
          DOMAIN Config(e)["multiagent"].dict

\* policy_manager.get_policy(p_id) for every listed policy ID, and the
\* resolved mapping function
SetupPolicies(ma) ==
    LET ids == ma["policies"].list
        idset == {ids[i] : i \in 1..Len(ids)}
    IN  [policies |-> Dict([p \in idset |-> [policy |-> p]]),
         policy_mapping_fn |-> Fn(ma["policy_mapping_fn"].str)]

SetupMultiAgent ==
    /\ pc = "multiagent"
    /\ IF HasMultiagent(exp)
       THEN /\ exp' = SetConfig(exp, "multiagent",
                        Dict(SetupPolicies(Config(exp)["multiagent"].dict)))
            /\ Goto("multiagent")
       ELSE UNCHANGED exp /\ Raise("multiagent")
    /\ UNCHANGED <<inputs, verbose, callback_vars, registered, ray_vars,
                   run_vars>>

-----------------------------------------------------------------------------
(* Lines 120-124: grid search over the list-valued hyperparameters.        *)

tune_keys == {"lr", "num_sgd_iter", "train_batch_size", "sgd_minibatch_size",
             "vf_loss_coeff", "vf_clip_param", "entropy_coeff", "kl_coeff",
             "kl_target", "clip_param"}

\* tune.grid_search(v) is {"grid_search": v}
GridSearch(v) == [grid_search |-> v.list]

\* the loop without its allow-list test
GridSearchAnyList(k, v) == IF IsList(v) THEN GridSearch(v) ELSE v

\* exp['config'][k] after the loop, for a key k of the config
GridSearchValue(k, v) ==
    IF k \in tune_keys /\ IsList(v) THEN GridSearch(v) ELSE v

ExpandGridSearch ==
    /\ pc = "grid_search"
    /\ exp' = [exp EXCEPT !["config"] =
                  Dict([k \in DOMAIN Config(exp) |->
                           GridSearchValue(k, Config(exp)[k])])]
    /\ Goto("grid_search")
    /\ UNCHANGED <<inputs, verbose, callback_vars, registered, ray_vars,
                   run_vars>>

-----------------------------------------------------------------------------
(* Lines 127-133: the descriptor takes the shape of an Experiment.         *)

\* setdefault in place of the assignment: a config that has an env keeps it
MoveEnvDefault(e) ==
    Del(IF HasConfigKey(e, "env") THEN e ELSE SetConfig(e, "env", e["env"]),
        "env")

\* lines 127-128
MoveEnv(e) == Del(SetConfig(e, "env", e["env"]), "env")

\* `exp.get(k) or None`: a falsy value becomes None
DefaultOptionalFalsy(e, k) ==
    Put(e, k, IF ~Has(e, k) \/ e[k] \in {Num(0), Bool(FALSE), Str("")}
              THEN None ELSE e[k])

\* lines 129-133, for one of the three keys
DefaultOptional(e, k) == Put(e, k, IF ~Has(e, k) THEN None ELSE e[k])

Reshape ==
    /\ pc = "reshape"
    /\ IF Has(exp, "env")
       THEN /\ exp' = DefaultOptional(
                        DefaultOptional(
                          DefaultOptional(MoveEnv(exp), "restore"),
                          "keep_checkpoints_num"),
                        "resources_per_trial")
            /\ Goto("reshape")
       ELSE UNCHANGED exp /\ Raise("reshape")
    /\ UNCHANGED <<inputs, verbose, callback_vars, registered, ray_vars,
                   run_vars>>

-----------------------------------------------------------------------------
(* Line 136: the trainer class.                                            *)

GetTrainer ==
    /\ pc = "get_trainer"
    /\ IF Has(exp, "run")
       THEN \/ trainer' = Fn(exp["run"].str) /\ Goto("get_trainer")
            \/ \* get_trainer_class raises
               UNCHANGED trainer /\ Raise("get_trainer")
       ELSE UNCHANGED trainer /\ Raise("get_trainer")
    /\ UNCHANGED <<inputs, exp, verbose, callback_vars, registered, ray_vars,
                   run_calls, run_args, run_returned>>

-----------------------------------------------------------------------------
(* Lines 139-152: tune.run.                                                *)

RunKeys == {"stop", "config", "resources_per_trial", "num_samples",
            "local_dir", "keep_checkpoints_num", "checkpoint_freq",
            "checkpoint_at_end", "trial_name_creator", "restore"}

RunArgs(t, name, e, verb) ==
    [run_or_experiment |-> t,
     name |-> name,
     stop |-> e["stop"],
     config |-> e["config"],
     resources_per_trial |-> e["resources_per_trial"],
     num_samples |-> e["num_samples"],
     local_dir |-> e["local_dir"],
     keep_checkpoints_num |-> e["keep_checkpoints_num"],
     checkpoint_freq |-> e["checkpoint_freq"],
     checkpoint_at_end |-> e["checkpoint_at_end"],
     verbose |-> verb,
     trial_name_creator |-> e["trial_name_creator"],
     restore |-> e["restore"]]

RunExperiment ==
    /\ pc = "run"
    /\ IF RunKeys \subseteq DOMAIN exp
       THEN /\ run_calls' = run_calls + 1
            /\ run_args' = RunArgs(trainer, exp_name, exp, verbose)
            /\ \/ run_returned' = TRUE /\ Goto("run")
               \/ UNCHANGED run_returned /\ Raise("run")  \* tune.run raises
       ELSE \* KeyError while the arguments are evaluated: no call
            /\ UNCHANGED <<run_calls, run_args, run_returned>>
            /\ Raise("run")
    /\ UNCHANGED <<inputs, exp, verbose, callback_vars, registered, ray_vars,
                   trainer>>

-----------------------------------------------------------------------------
(* Line 155: ray.shutdown, then main() returns.                            *)

RayShutdown ==
    /\ pc = "shutdown"
    /\ ray_shutdown_calls' = ray_shutdown_calls + 1
    /\ Goto("shutdown")
    /\ UNCHANGED <<inputs, exp, verbose, callback_vars, registered,
                   ray_init_calls, ray_init_args, run_vars>>

-----------------------------------------------------------------------------

Next ==
    \/ SelectExperiment
    \/ SetTrialNameCreator
    \/ NormalizePaths
    \/ ApplyVerbosity
    \/ ApplyLocalMode
    \/ ResolveCallback
    \/ UpdateExpByTaskId
    \/ RegisterCustom
    \/ RayInit
    \/ MakePolicyManager
    \/ SetupMultiAgent
    \/ ExpandGridSearch
    \/ Reshape
    \/ GetTrainer
    \/ RunExperiment
    \/ RayShutdown

Spec == Init /\ [][Next]_vars

-----------------------------------------------------------------------------
(* Properties.                                                             *)

Loaded == experiments[1].value

Unset == [unset |-> TRUE]
\* exp['config'].get(k), with Unset for a missing key or a missing config
ConfigGet(e, k) == IF HasConfigKey(e, k) THEN Config(e)[k] ELSE Unset
\* exp.get(k), with Unset for a missing key
Get(e, k) == IF Has(e, k) THEN e[k] ELSE Unset

\* the keys of the config, {} without a config
ConfigKeys(e) == IF HasConfig(e) THEN DOMAIN Config(e) ELSE {}

\* C1: a file whose number of top-level names is not 1 makes the run fail in
\* the selection step, with no descriptor taken or edited, no callback
\* resolved, no ray.init and no tune.run; with exactly one name the step
\* succeeds and the working descriptor is that name's value.
C1_ExactlyOneExperiment ==
    /\ (Len(experiments) # 1 /\ steps # << >>) =>
          /\ pc = "exited" /\ exit_code = 1 /\ failed_at = "select"
          /\ steps = <<"select">>
          /\ exp = None
          /\ update_exp_by_task_id = None
          /\ ray_init_calls = 0
          /\ run_calls = 0
    /\ (Len(experiments) = 1 /\ steps = <<"select">>) =>
          /\ pc = "trial_name" /\ exit_code = -1 /\ failed_at = ""
          /\ exp = experiments[1].value

C1_Witness ==
    /\ Len(experiments) = 2
    /\ steps = <<"select">>
    /\ failed_at = "select"

\* C2 as stated: when the verbosity step has completed, (log_level, verbose)
\* is (unset, 1), ('INFO', 2) or ('DEBUG', 3).
C2_Original ==
    pc = "local_mode" =>
        <<ConfigGet(exp, "log_level"), verbose>> \in
            {<<Unset, 1>>, <<Str("INFO"), 2>>, <<Str("DEBUG"), 3>>}

\* C2 amended: when the verbosity step has completed, -vv gives ('DEBUG', 3)
\* (with or without -v), -v alone gives ('INFO', 2), and neither flag gives
\* verbose 1 with config.log_level as loaded (unset only if the file set
\* none); tune.run receives the verbose of the flags' tier.
C2_VerbosityTiers ==
    /\ pc = "local_mode" =>
          CASE args.vv ->
                  ConfigGet(exp, "log_level") = Str("DEBUG") /\ verbose = 3
            [] args.v /\ ~args.vv ->
                  ConfigGet(exp, "log_level") = Str("INFO") /\ verbose = 2
            [] OTHER ->
                  /\ ConfigGet(exp, "log_level") = ConfigGet(Loaded, "log_level")
                  /\ verbose = 1
    /\ run_calls = 1 =>
          run_args.verbose = (CASE args.vv -> 3 [] args.v /\ ~args.vv -> 2
                                [] OTHER -> 1)

C2_Witness ==
    /\ pc = "local_mode"
    /\ ~args.v /\ ~args.vv
    /\ ConfigGet(exp, "log_level") = Str("WARN")
    /\ verbose = 1

\* C3: the local-mode step sets config.num_workers to 0 when --local-mode is
\* given, whatever the file held, leaves it as it was otherwise, and changes
\* no other key of the descriptor.
C3_LocalModeForcesZeroWorkers ==
    [][(pc = "local_mode" /\ pc' = "resolve") =>
          /\ ConfigGet(exp', "num_workers") =
                (IF args.local_mode THEN Num(0)
                 ELSE ConfigGet(exp, "num_workers"))
          /\ DOMAIN exp' = DOMAIN exp
          /\ \A k \in DOMAIN exp \ {"config"} : exp'[k] = exp[k]
          /\ ConfigKeys(exp') \ {"num_workers"} =
                ConfigKeys(exp) \ {"num_workers"}
          /\ \A k \in ConfigKeys(exp) \ {"num_workers"} :
                Config(exp')[k] = Config(exp)[k]]_vars

C3_Witness ==
    /\ pc = "resolve"
    /\ args.local_mode
    /\ ConfigGet(Loaded, "num_workers") = Num(2)
    /\ ConfigGet(exp, "num_workers") = Num(0)

\* C4: the grid-search step replaces the value of every allow-listed key
\* that holds a list by the grid-search wrapper of that list, and leaves
\* every other key's value and the set of keys as they were.
C4_GridSearchOnlyAllowListedLists ==
    [][(pc = "grid_search" /\ pc' = "reshape") =>
          /\ DOMAIN Config(exp') = DOMAIN Config(exp)
          /\ \A k \in DOMAIN Config(exp) :
                Config(exp')[k] =
                    (IF /\ k \in {"lr", "num_sgd_iter", "train_batch_size",
                                  "sgd_minibatch_size", "vf_loss_coeff",
                                  "vf_clip_param", "entropy_coeff", "kl_coeff",
                                  "kl_target", "clip_param"}
                        /\ "list" \in DOMAIN Config(exp)[k]
                     THEN [grid_search |-> Config(exp)[k].list]
                     ELSE Config(exp)[k])]_vars

C4_Witness ==
    /\ pc = "reshape"
    /\ Config(cb_out)["lr"] = List(<<1, 2>>)
    /\ Config(exp)["lr"] = [grid_search |-> <<1, 2>>]
    /\ Config(exp)["clip_param"] = Num(3)
    /\ Config(exp)["lr_schedule"] = List(<<0, 5>>)

\* the reshaping step has completed
ReshapeDone ==
    /\ \E i \in 1..Len(steps) : steps[i] = "reshape"
    /\ failed_at # "reshape"

\* C5: the reshaping step removes the top-level env and stores its value as
\* config.env (over any env the config had); the later steps keep both, and
\* the config tune.run receives carries that env.
C5_EnvMovedIntoConfig ==
    [][/\ (pc = "reshape" /\ pc' = "get_trainer") =>
              /\ ~Has(exp', "env")
              /\ ConfigGet(exp', "env") = exp["env"]
       /\ pc \in {"get_trainer", "run", "shutdown"} =>
              /\ ~Has(exp', "env")
              /\ ConfigGet(exp', "env") = ConfigGet(exp, "env")
       /\ run_calls' = run_calls + 1 =>
              run_args'.config.dict["env"] = ConfigGet(exp, "env")
       /\ ReshapeDone' =>
              /\ ~Has(exp', "env")
              /\ ConfigGet(exp', "env") = cb_out'["env"]]_vars

C5_Witness ==
    /\ run_calls = 1
    /\ ConfigGet(Loaded, "env") = Str("OldEnv")
    /\ Loaded["env"] = Str("Env-v0")
    /\ ~Has(exp, "env")
    /\ run_args.config.dict["env"] = Str("Env-v0")

\* C6: for each of restore, keep_checkpoints_num and resources_per_trial the
\* reshaping step adds the key with None when it is absent and keeps its
\* value (None and falsy values too) when it is present; tune.run receives
\* that value.
C6_OptionalKeysDefaultToNone ==
    [][/\ (pc = "reshape" /\ pc' = "get_trainer") =>
              \A k \in {"restore", "keep_checkpoints_num",
                        "resources_per_trial"} :
                  /\ k \in DOMAIN exp'
                  /\ exp'[k] = (IF k \in DOMAIN exp THEN exp[k] ELSE None)
       /\ run_calls' = run_calls + 1 =>
              /\ run_args'.restore = exp["restore"]
              /\ run_args'.keep_checkpoints_num = exp["keep_checkpoints_num"]
              /\ run_args'.resources_per_trial = exp["resources_per_trial"]
       /\ (pc \in {"get_trainer", "run"} /\ pc' # "exited") =>
              \A k \in {"restore", "keep_checkpoints_num",
                        "resources_per_trial"} : exp'[k] = exp[k]]_vars

C6_Witness ==
    /\ run_calls = 1
    /\ ~Has(Loaded, "restore")
    /\ Get(Loaded, "keep_checkpoints_num") = Num(0)
    /\ Has(Loaded, "resources_per_trial")
    /\ run_args.restore = None
    /\ run_args.keep_checkpoints_num = Num(0)
    /\ run_args.resources_per_trial = Loaded["resources_per_trial"]

\* C7: a step that fails ends the run: the failing step is the last step
\* executed, the exit status is 1, tune.run is not invoked after a failure of
\* an earlier step, no step is executed twice, and the steps executed are a
\* prefix of the pipeline.
C7_FailureIsFatal ==
    /\ failed_at # "" =>
          /\ pc = "exited"
          /\ exit_code = 1
          /\ steps # << >>
          /\ steps[Len(steps)] = failed_at
    /\ (failed_at # "" /\ failed_at # "run") => run_calls = 0
    /\ \A i, j \in 1..Len(steps) : i # j => steps[i] # steps[j]
    /\ Len(steps) <= Len(Pipeline)
    /\ \A i \in 1..Len(steps) : steps[i] = Pipeline[i]
    /\ exit_code = 0 => (failed_at = "" /\ pc = "exited")
    /\ (pc = "exited" /\ failed_at = "") => exit_code = 0

C7_Witness ==
    /\ args.job_array_module = "no_callback"
    /\ failed_at = "resolve"
    /\ pc = "exited"
    /\ exit_code = 1
    /\ run_calls = 0

\* the steps of main() before the tune.run statement
BeforeRun == {"select", "trial_name", "paths", "verbosity", "local_mode",
              "resolve", "callback", "register", "ray_init", "policy_manager",
              "multiagent", "grid_search", "reshape", "get_trainer"}

\* tune.run is invoked at most once, after every earlier step has completed,
\* and the descriptor is as it was handed over from then on
RunnerInvokedAtMostOnceAtTheEnd ==
    /\ run_calls <= 1
    /\ run_calls = 1 =>
          /\ BeforeRun = {steps[i] : i \in 1..Len(steps)} \ {"run", "shutdown"}
          /\ failed_at \notin BeforeRun
          /\ \A k \in {"stop", "config", "resources_per_trial", "num_samples",
                       "local_dir", "keep_checkpoints_num", "checkpoint_freq",
                       "checkpoint_at_end", "trial_name_creator", "restore"} :
                run_args[k] = exp[k]
    /\ run_calls = 0 => pc # "shutdown" /\ exit_code # 0

\* C8 as stated: tune.run is invoked at most once, only after all earlier
\* steps, with the descriptor unchanged afterwards, and exactly once in every
\* execution in which no earlier step fails.
C8_Original ==
    /\ RunnerInvokedAtMostOnceAtTheEnd
    /\ (pc = "exited" /\ failed_at \notin BeforeRun) => run_calls = 1

\* C8 amended: as C8, but tune.run is invoked exactly once in every execution
\* in which no earlier step fails and the descriptor holds every field the
\* call's arguments read (stop, num_samples, local_dir, checkpoint_freq,
\* checkpoint_at_end, trial_name_creator); without one of them the arguments
\* raise KeyError and tune.run is not invoked.
C8_RunnerInvokedOnce ==
    /\ RunnerInvokedAtMostOnceAtTheEnd
    /\ (pc = "exited" /\ failed_at \notin BeforeRun) =>
          (run_calls = 1 <=>
              {"stop", "num_samples", "local_dir", "checkpoint_freq",
               "checkpoint_at_end", "trial_name_creator"} \subseteq DOMAIN exp)

C8_Witness ==
    /\ pc = "exited"
    /\ exit_code = 0
    /\ run_calls = 1
    /\ run_args.name = Str("select_lr_1")

\* C9 as stated: every execution in which ray.init has been called (and has
\* returned) has called ray.shutdown when the process ends, whether the
\* steps after it succeeded or failed.
C9_Original ==
    (pc = "exited" /\ ray_init_calls >= 1 /\ failed_at # "ray_init") =>
        ray_shutdown_calls = 1

\* C9 amended: ray.init and ray.shutdown are each called at most once,
\* ray.shutdown only after ray.init and after tune.run has returned; an
\* execution that has called ray.init ends with ray.shutdown called exactly
\* when no step failed, and with ray.shutdown never called when ray.init or
\* a later step failed.
C9_InitShutdownPair ==
    /\ ray_init_calls <= 1
    /\ ray_shutdown_calls <= 1
    /\ ray_shutdown_calls = 1 => (ray_init_calls = 1 /\ run_returned)
    /\ (pc = "exited" /\ ray_init_calls = 1) =>
          (ray_shutdown_calls = 1 <=> failed_at = "")
    /\ (pc = "exited" /\ failed_at = "") => ray_init_calls = 1

C9_Witness ==
    /\ pc = "exited"
    /\ ray_init_calls = 1
    /\ failed_at = "multiagent"
    /\ ray_shutdown_calls = 0

\* C10: tune.run's name is the name the callback returned; registration,
\* ray.init and tune.run read the descriptor the callback returned (the
\* config as the later steps reshaped it, log_level and num_workers present
\* only as the returned config has them); verbose follows the flags alone.
C10_CallbackOutputTrusted ==
    /\ registered # None =>
          /\ registered.env = cb_out["env"]
          /\ registered.model = Config(cb_out)["model"]
    /\ ray_init_args # None =>
          /\ ray_init_args.num_cpus = cb_out["ray_resources"].dict["num_cpus"]
          /\ ray_init_args.num_gpus = cb_out["ray_resources"].dict["num_gpus"]
    /\ trainer # None => trainer = Fn(cb_out["run"].str)
    /\ run_calls = 1 =>
          /\ run_args.name =
                Str(args.job_array_module \o "_" \o
                    ToString(args.job_array_task_id))
          /\ run_args.run_or_experiment = Fn(cb_out["run"].str)
          /\ \A k \in {"stop", "num_samples", "local_dir", "checkpoint_freq",
                       "checkpoint_at_end", "trial_name_creator"} :
                run_args[k] = cb_out[k]
          /\ \A k \in {"restore", "keep_checkpoints_num",
                       "resources_per_trial"} :
                run_args[k] = (IF Has(cb_out, k) THEN cb_out[k] ELSE None)
          /\ DOMAIN run_args.config.dict = DOMAIN Config(cb_out) \cup {"env"}
          /\ run_args.config.dict["env"] = cb_out["env"]
          /\ \A k \in {"log_level", "num_workers", "model", "clip_param",
                       "lr_schedule"} :
                Get(run_args.config.dict, k) = ConfigGet(cb_out, k)
          /\ DOMAIN run_args.config.dict["multiagent"].dict["policies"].dict =
                LET ids == Config(cb_out)["multiagent"].dict["policies"].list
                IN  {ids[i] : i \in 1..Len(ids)}
          /\ run_args.config.dict["multiagent"].dict["policy_mapping_fn"] =
                Fn(Config(cb_out)["multiagent"].dict["policy_mapping_fn"].str)
          /\ run_args.config.dict["lr"] =
                (IF "list" \in DOMAIN Config(cb_out)["lr"]
                 THEN [grid_search |-> Config(cb_out)["lr"].list]
                 ELSE Config(cb_out)["lr"])
          /\ run_args.verbose = (IF args.vv THEN 3 ELSE IF args.v THEN 2 ELSE 1)

C10_Witness ==
    /\ run_calls = 1
    /\ args.job_array_module = "rebuild"
    /\ args.v /\ args.local_mode
    /\ ConfigGet(cb_in, "log_level") = Str("INFO")
    /\ ConfigGet(cb_in, "num_workers") = Num(0)
    /\ ~Has(run_args.config.dict, "log_level")
    /\ ~Has(run_args.config.dict, "num_workers")
    /\ run_args.local_dir = Path(<<"/", "scratch", "1">>)
    /\ run_args.verbose = 2

=============================================================================
